---- MODULE Spec2Model ----
(***************************************************************************)
(* Model of src/src/_WithGuard.h: the scoped guard no_gil, the functor     *)
(* detail::guarded_function and the factory detail::with_aux / with.       *)
(*                                                                         *)
(* Threads of the embedding interpreter compete for one global lock.  A    *)
(* thread that holds it may invoke the wrapped callable; the invocation    *)
(* constructs a guard (PyEval_SaveThread), runs the stored callable,       *)
(* destroys the guard (PyEval_RestoreThread, blocking) and returns.        *)
(***************************************************************************)
EXTENDS Integers, Sequences, FiniteSets, TLC

\* ------------------------------------------------------------------ bounds
NThreads == 2       \* threads of the interpreter
MaxCalls == 2       \* invocations of the wrapped object in one behaviour
MaxDepth == 2       \* nesting of invocations on one thread (re-entry from fn_)
MaxGuards == 2      \* no_gil objects alive in one client scope

Threads == 1..NThreads
Seeds == {0, 1}     \* argument tuples are <<2+s, 3+s, ...>> for s \in Seeds

\* ---------------------------------------------------- types and signatures
\* A C++ type: a name and a pointer depth.
Ty(n) == [name |-> n, ptr |-> 0]
ParamNames == <<"A1", "A2", "A3", "A4">>
Params(n) == [i \in 1..n |-> Ty(ParamNames[i])]

\* boost::add_pointer<T>
add_pointer(T) == [T EXCEPT !.ptr = @ + 1]

\* The native callables handed to with(): a free function pointer
\* R (*)(A1..An), a member function pointer R (C::*)(A1..An), or a
\* boost::function<R (A1..An)>.  The wrapper accepts at most four arguments,
\* so a member function has at most three of its own.
Bodies == {"add", "weighted", "throwing"}
Callables ==
    [kind : {"free", "function"}, arity : 0..4, body : Bodies]
    \cup [kind : {"member"}, arity : 0..3, body : Bodies]

\* ------------------------------------------------- the native code wrapped
RECURSIVE Sum(_)
Sum(xs) == IF xs = <<>> THEN 0 ELSE Head(xs) + Sum(Tail(xs))

RECURSIVE WeightedFrom(_, _)
WeightedFrom(k, xs) ==
    IF xs = <<>> THEN 0 ELSE k * Head(xs) + WeightedFrom(k + 1, Tail(xs))
Weighted(xs) == WeightedFrom(1, xs)

Value(v) == [kind |-> "value", type |-> "int", val |-> v]
Failure(p) == [kind |-> "error", type |-> "RuntimeFailure", val |-> p]

\* What the native function computes from its own arguments; `self` is the
\* contribution of the instance a member function is called on (0 otherwise).
Body(b, self, xs) ==
    CASE b = "add" -> Value(self + Sum(xs))
      [] b = "weighted" -> Value(self + Weighted(xs))
      [] b = "throwing" -> Failure(self + Weighted(xs))

\* Calling the original callable directly: f(a1..an), or (inst->*f)(a1..an).
DirectCall(f, inst, xs) ==
    IF f.kind = "member" THEN Body(f.body, 10 * inst, xs) ELSE Body(f.body, 0, xs)

\* boost::function<R (C*, A1..An)> holding a member pointer calls it on its
\* first argument; holding anything else it passes the arguments through.
boost_function_call(f, xs) ==
    IF f.kind = "member"
    THEN DirectCall(f, Head(xs), Tail(xs))
    ELSE DirectCall(f, 0, xs)

\* ----------------------------------------------------------- with_aux
\* detail::mpl_signature<Fn>::type: the components of Fn's type, the class of a
\* member function pointer turned into a pointer.
mpl_signature_no_pointer(fn) ==
    IF fn.kind = "member"
    THEN <<Ty("R"), Ty("C")>> \o Params(fn.arity)
    ELSE <<Ty("R")>> \o Params(fn.arity)

mpl_signature(fn) ==
    IF fn.kind = "member"
    THEN <<Ty("R"), add_pointer(Ty("C"))>> \o Params(fn.arity)
    ELSE <<Ty("R")>> \o Params(fn.arity)

\* boost::function_types::function_type<Seq>: Seq[1] (*)(Seq[2..])
function_type(seq) == [result |-> Head(seq), params |-> Tail(seq)]

\* guarded_function(Fn fn) : fn_(fn) {}
guarded_function(sig, fn) == [fn_ |-> fn, signature |-> sig]

\* with_aux<Guard>(fn, policy): the object make_function returns
with_aux(fn) ==
    [functor |-> guarded_function(function_type(mpl_signature(fn)), fn),
     mpl_signature_type |-> mpl_signature(fn)]

\* The argument tuples the interpreter can pass: one value per parameter of
\* the exposed signature, all different (an instance pointer is a number too).
ArgTuples(w) ==
    LET n == Len(w.mpl_signature_type) - 1
    IN {[i \in 1..n |-> i + 1 + s] : s \in Seeds}

\* ------------------------------------------------------------------ state
VARIABLES
    holds,      \* holds[t]: thread t holds the interpreter's global lock
    stack,      \* stack[t]: the frames of operator() active on thread t
    orig,       \* the callable given to with()
    wrapped,    \* the object with() returned
    ret,        \* ret[t]: what the last invocation on t gave its caller
    scope,      \* scope[t]: the no_gil objects of a client scope on t
    calls,      \* invocations started
    completed,  \* invocations that returned or threw to their caller
    releases,   \* calls of PyEval_SaveThread that released the lock
    restores,   \* calls of PyEval_RestoreThread that took the lock
    unlocked,   \* an invocation was started by a thread not holding the lock
    aborted     \* the interpreter ended the process (Py_FatalError)

vars == <<holds, stack, orig, wrapped, ret, scope, calls, completed,
          releases, restores, unlocked, aborted>>

NoRet == [set |-> FALSE]
NoOut == [kind |-> "none", type |-> "none", val |-> 0]
NoState == 0        \* a PyThreadState* that is NULL / not yet assigned

\* The PyThreadState of thread t.
tstate(t) == t

Top(t) == stack[t][Len(stack[t])]
InFrame(t) == stack[t] # <<>>
At(t, p) == InFrame(t) /\ Top(t).pc = p
SetTop(t, f) == [stack EXCEPT ![t][Len(stack[t])] = f]
LockFree == \A u \in Threads : ~holds[u]

Init ==
    /\ holds = [t \in Threads |-> FALSE]
    /\ stack = [t \in Threads |-> <<>>]
    /\ orig \in Callables
    /\ wrapped = with_aux(orig)
    /\ ret = [t \in Threads |-> NoRet]
    /\ scope = [t \in Threads |-> <<>>]
    /\ calls = 0
    /\ completed = 0
    /\ releases = 0
    /\ restores = 0
    /\ unlocked = FALSE
    /\ aborted = FALSE

Running == ~aborted

\* ------------------------------------------------------- the interpreter
\* The interpreter schedules thread t: t takes the global lock when it is free.
InterpTake(t) ==
    /\ Running
    /\ ~InFrame(t) /\ scope[t] = <<>>
    /\ ~holds[t] /\ LockFree
    /\ holds' = [holds EXCEPT ![t] = TRUE]
    /\ UNCHANGED <<stack, orig, wrapped, ret, scope, calls, completed,
                   releases, restores, unlocked, aborted>>

\* The interpreter switches away from thread t: t gives the lock up.
InterpDrop(t) ==
    /\ Running
    /\ ~InFrame(t) /\ scope[t] = <<>>
    /\ holds[t]
    /\ holds' = [holds EXCEPT ![t] = FALSE]
    /\ UNCHANGED <<stack, orig, wrapped, ret, scope, calls, completed,
                   releases, restores, unlocked, aborted>>

\* ------------------------------------------------- guarded_function
NewFrame(args) ==
    [pc |-> "guard", args |-> args, g |-> NoState, out |-> NoOut,
     nrel |-> 0, nres |-> 0]

\* result_type operator()(A1 a1, ..., An an): the interpreter, running on
\* thread t with the lock held, calls the wrapped object.
Call(t, args) ==
    /\ Running
    /\ ~InFrame(t) /\ scope[t] = <<>>
    /\ holds[t]
    /\ calls < MaxCalls
    /\ args \in ArgTuples(wrapped)
    /\ stack' = [stack EXCEPT ![t] = <<NewFrame(args)>>]
    /\ ret' = [ret EXCEPT ![t] = NoRet]
    /\ calls' = calls + 1
    /\ UNCHANGED <<holds, orig, wrapped, scope, completed, releases, restores,
                   unlocked, aborted>>

\* no_gil() { _state = PyEval_SaveThread(); } run as `Guard g;` by a thread
\* that holds the lock: the lock is released and the thread's state saved.
no_gil_keeps_lock(t) ==
    /\ Running
    /\ At(t, "guard") /\ holds[t]
    /\ stack' = SetTop(t, [Top(t) EXCEPT !.pc = "call", !.g = tstate(t)])
    /\ UNCHANGED <<holds, orig, wrapped, ret, scope, calls, completed,
                   releases, restores, unlocked, aborted>>

no_gil(t) ==
    /\ Running
    /\ At(t, "guard") /\ holds[t]
    /\ holds' = [holds EXCEPT ![t] = FALSE]
    /\ releases' = releases + 1
    /\ stack' = SetTop(t, [Top(t) EXCEPT !.pc = "call", !.g = tstate(t),
                                         !.nrel = @ + 1])
    /\ UNCHANGED <<orig, wrapped, ret, scope, calls, completed, restores,
                   unlocked, aborted>>

\* The arguments each overload of operator() passes to fn_.
Forward_swapped(args) ==
    CASE Len(args) = 0 -> <<>>
      [] Len(args) = 1 -> <<args[1]>>
      [] Len(args) = 2 -> <<args[2], args[1]>>
      [] Len(args) = 3 -> <<args[1], args[3], args[2]>>
      [] Len(args) = 4 -> <<args[1], args[2], args[4], args[3]>>

Forward(args) ==
    CASE Len(args) = 0 -> <<>>
      [] Len(args) = 1 -> <<args[1]>>
      [] Len(args) = 2 -> <<args[1], args[2]>>
      [] Len(args) = 3 -> <<args[1], args[2], args[3]>>
      [] Len(args) = 4 -> <<args[1], args[2], args[3], args[4]>>

fn_call_translates(t) ==
    /\ Running
    /\ At(t, "call")
    /\ LET r == boost_function_call(wrapped.functor.fn_, Forward(Top(t).args))
       IN stack' = SetTop(t, [Top(t) EXCEPT
            !.pc = "unwind",
            !.out = IF r.kind = "error" THEN [r EXCEPT !.type = "Exception"] ELSE r])
    /\ UNCHANGED <<holds, orig, wrapped, ret, scope, calls, completed,
                   releases, restores, unlocked, aborted>>

\* return fn_(a1, ..., an): the stored callable runs to its end, with a
\* result or an exception; either way the scope of g is left next.
fn_call(t) ==
    /\ Running
    /\ At(t, "call")
    /\ stack' = SetTop(t, [Top(t) EXCEPT
            !.pc = "unwind",
            !.out = boost_function_call(wrapped.functor.fn_, Forward(Top(t).args))])
    /\ UNCHANGED <<holds, orig, wrapped, ret, scope, calls, completed,
                   releases, restores, unlocked, aborted>>

\* ~no_gil() { PyEval_RestoreThread(_state); } at scope exit, on return and on
\* a throw alike: waits for the lock, takes it, makes _state current again.
destroy_no_wait(t) ==
    /\ Running
    /\ At(t, "unwind")
    /\ holds' = [holds EXCEPT ![t] = TRUE]
    /\ restores' = restores + 1
    /\ stack' = SetTop(t, [Top(t) EXCEPT !.pc = "ret", !.nres = @ + 1])
    /\ UNCHANGED <<orig, wrapped, ret, scope, calls, completed, releases,
                   unlocked, aborted>>

destroy_skipped_on_throw(t) ==
    /\ Running
    /\ At(t, "unwind")
    /\ IF Top(t).out.kind = "error"
       THEN /\ stack' = SetTop(t, [Top(t) EXCEPT !.pc = "ret"])
            /\ UNCHANGED <<holds, restores>>
       ELSE /\ LockFree
            /\ holds' = [holds EXCEPT ![t] = TRUE]
            /\ restores' = restores + 1
            /\ stack' = SetTop(t, [Top(t) EXCEPT !.pc = "ret", !.nres = @ + 1])
    /\ UNCHANGED <<orig, wrapped, ret, scope, calls, completed, releases,
                   unlocked, aborted>>

no_gil_destroy(t) ==
    /\ Running
    /\ At(t, "unwind")
    /\ LockFree
    /\ holds' = [holds EXCEPT ![t] = TRUE]
    /\ restores' = restores + 1
    /\ stack' = SetTop(t, [Top(t) EXCEPT !.pc = "ret", !.nres = @ + 1])
    /\ UNCHANGED <<orig, wrapped, ret, scope, calls, completed, releases,
                   unlocked, aborted>>

\* The closing brace of operator(): the result, or the exception, reaches the
\* caller and the frame is gone.
Delivered(t) ==
    [set |-> TRUE, args |-> Top(t).args, out |-> Top(t).out,
     held |-> holds[t], nrel |-> Top(t).nrel, nres |-> Top(t).nres,
     depth |-> Len(stack[t])]

Return_rebinds_fn(t) ==
    /\ Running
    /\ At(t, "ret")
    /\ ret' = [ret EXCEPT ![t] = Delivered(t)]
    /\ stack' = [stack EXCEPT ![t] = SubSeq(@, 1, Len(@) - 1)]
    /\ completed' = completed + 1
    /\ wrapped' = [wrapped EXCEPT !.functor.fn_.body = "add"]
    /\ UNCHANGED <<holds, orig, scope, calls, releases, restores,
                   unlocked, aborted>>

Return(t) ==
    /\ Running
    /\ At(t, "ret")
    /\ ret' = [ret EXCEPT ![t] = Delivered(t)]
    /\ stack' = [stack EXCEPT ![t] = SubSeq(@, 1, Len(@) - 1)]
    /\ completed' = completed + 1
    /\ UNCHANGED <<holds, orig, wrapped, scope, calls, releases, restores,
                   unlocked, aborted>>

\* ------------------------------------------------ re-entry from fn_
\* The stored callable, while it runs on thread t inside operator(), calls the
\* same wrapped object again.
fn_reenter(t, args) ==
    /\ Running
    /\ At(t, "call")
    /\ Len(stack[t]) < MaxDepth
    /\ calls < MaxCalls
    /\ args \in ArgTuples(wrapped)
    /\ stack' = [stack EXCEPT ![t] = Append(@, NewFrame(args))]
    /\ calls' = calls + 1
    /\ unlocked' = (unlocked \/ ~holds[t])
    /\ UNCHANGED <<holds, orig, wrapped, ret, scope, completed, releases,
                   restores, aborted>>

\* no_gil() run by a thread that does not hold the lock.  PyEval_SaveThread
\* finds no current thread state for the caller and ends the process ...
no_gil_fatal(t) ==
    /\ Running
    /\ At(t, "guard") /\ ~holds[t]
    /\ aborted' = TRUE
    /\ UNCHANGED <<holds, stack, orig, wrapped, ret, scope, calls, completed,
                   releases, restores, unlocked>>

\* ... or, where the current thread state is one global pointer, it takes the
\* state of the thread u that holds the lock and releases u's lock.
no_gil_steals(t, u) ==
    /\ Running
    /\ At(t, "guard") /\ ~holds[t]
    /\ holds[u]
    /\ holds' = [holds EXCEPT ![u] = FALSE]
    /\ releases' = releases + 1
    /\ stack' = SetTop(t, [Top(t) EXCEPT !.pc = "call", !.g = tstate(u),
                                         !.nrel = @ + 1])
    /\ UNCHANGED <<orig, wrapped, ret, scope, calls, completed, restores,
                   unlocked, aborted>>

\* ------------------------------------------- no_gil used as in its comment
\* { no_gil guard; ...code... }: client code on thread t declares a guard.
scope_declare(t) ==
    /\ Running
    /\ ~InFrame(t)
    /\ holds[t]
    /\ Len(scope[t]) < MaxGuards
    /\ releases < MaxCalls
    /\ holds' = [holds EXCEPT ![t] = FALSE]
    /\ releases' = releases + 1
    /\ scope' = [scope EXCEPT ![t] =
                    Append(@, [_state |-> tstate(t), released |-> TRUE])]
    /\ UNCHANGED <<stack, orig, wrapped, ret, calls, completed, restores,
                   unlocked, aborted>>

\* no_gil copy(guard): struct no_gil declares no copy constructor, so the
\* compiler's own copies _state member by member.
scope_copy(t) ==
    /\ Running
    /\ ~InFrame(t)
    /\ scope[t] # <<>>
    /\ Len(scope[t]) < MaxGuards
    /\ scope' = [scope EXCEPT ![t] =
                    Append(@, [_state |-> @[Len(@)]._state, released |-> FALSE])]
    /\ UNCHANGED <<holds, stack, orig, wrapped, ret, calls, completed,
                   releases, restores, unlocked, aborted>>

\* The scope ends: the guard declared last is destroyed first.
scope_exit(t) ==
    /\ Running
    /\ ~InFrame(t)
    /\ scope[t] # <<>>
    /\ LockFree
    /\ holds' = [holds EXCEPT ![t] = TRUE]
    /\ restores' = restores + 1
    /\ scope' = [scope EXCEPT ![t] = SubSeq(@, 1, Len(@) - 1)]
    /\ UNCHANGED <<stack, orig, wrapped, ret, calls, completed, releases,
                   unlocked, aborted>>

\* ---------------------------------------------------------- specification
Next ==
    \E t \in Threads :
        \/ InterpTake(t)
        \/ InterpDrop(t)
        \/ \E args \in ArgTuples(wrapped) : Call(t, args)
        \/ no_gil(t)
        \/ fn_call(t)
        \/ no_gil_destroy(t)
        \/ Return(t)

Spec == Init /\ [][Next]_vars

\* The lock is handed out fairly, every inner call ends, and a thread that
\* holds the lock in the interpreter gives it up in the end.
FairSpec ==
    /\ Spec
    /\ \A t \in Threads :
        /\ WF_vars(InterpDrop(t))
        /\ WF_vars(no_gil(t))
        /\ WF_vars(fn_call(t))
        /\ SF_vars(no_gil_destroy(t))
        /\ WF_vars(Return(t))

\* The wrapped object called from the interpreter and again from inside fn_.
NextReentrant ==
    \/ Next
    \/ \E t \in Threads :
        \/ \E args \in ArgTuples(wrapped) : fn_reenter(t, args)
        \/ no_gil_fatal(t)
        \/ \E u \in Threads : no_gil_steals(t, u)

SpecReentrant == Init /\ [][NextReentrant]_vars

\* no_gil objects declared, copied and destroyed by client code.
NextGuard ==
    \E t \in Threads :
        \/ InterpTake(t)
        \/ InterpDrop(t)
        \/ scope_declare(t)
        \/ scope_copy(t)
        \/ scope_exit(t)

SpecGuard == Init /\ [][NextGuard]_vars

\* ================================================================ claims
\* What calling the callable given to with() directly on `args` gives: args
\* are (a1..an), or (instance, a1..an) for a member function.
OriginalResult(args) ==
    IF orig.kind = "member"
    THEN DirectCall(orig, Head(args), Tail(args))
    ELSE DirectCall(orig, 0, args)

Active(pcs) == {t \in Threads : InFrame(t) /\ Top(t).pc \in pcs}
Holders == {t \in Threads : holds[t]}

\* C1: a thread that called the wrapped object with the lock held does not
\* hold the lock while the inner call fn_(...) runs, and holds it again when
\* operator() returns control to its caller, on a normal return and on a
\* throw alike.
C1_LockReleasedDuringCall ==
    \A t \in Threads :
        /\ At(t, "call") => ~holds[t]
        /\ At(t, "ret") => holds[t]
        /\ ret[t].set => ret[t].held

\* C1 witness: an invocation whose inner call threw has returned to its caller.
C1_Witness ==
    \E t \in Threads : ret[t].set /\ ret[t].out.kind = "error" /\ ret[t].held

\* C2: releases and restores are paired 1:1: the restores never exceed the
\* releases, every invocation past its guard's construction has released
\* once, every invocation past its guard's destruction has restored once, so
\* N completed invocations (and none in flight) made N releases and N
\* restores, from one thread or several.
C2_PairedReleaseRestore ==
    /\ restores <= releases
    /\ releases = completed + Cardinality(Active({"call", "unwind", "ret"}))
    /\ restores = completed + Cardinality(Active({"ret"}))
    /\ (\A t \in Threads : ~InFrame(t)) =>
            (releases = completed /\ restores = completed)

\* C2 witness: one thread has completed an invocation while the invocation
\* of another thread is inside its inner call (two releases, one restore).
C2_Witness ==
    /\ completed >= 1
    /\ \E t, u \in Threads : t # u /\ ret[t].set /\ At(u, "call")

\* C3: when the wrapped callable throws, the caller gets that same error
\* (kind and payload), the invocation made one release and one restore, and
\* the caller holds the lock when the error reaches it.
C3_ErrorPropagates ==
    \A t \in Threads :
        (ret[t].set /\ OriginalResult(ret[t].args).kind = "error") =>
            /\ ret[t].out = OriginalResult(ret[t].args)
            /\ ret[t].nrel = 1 /\ ret[t].nres = 1
            /\ ret[t].held

\* C3 witness: a zero-argument throwing function was called through the
\* wrapper and its failure reached the caller.
C3_Witness ==
    /\ orig = [kind |-> "free", arity |-> 0, body |-> "throwing"]
    /\ \E t \in Threads : ret[t].set /\ ret[t].out.type = "RuntimeFailure"

\* C4: for every arity 0..4, the wrapped callable called with a1..an returns
\* what the original returns for a1..an when it does not fail (arguments in
\* order, none dropped, none duplicated).
C4_ResultPreserved ==
    \A t \in Threads :
        (ret[t].set /\ OriginalResult(ret[t].args).kind = "value") =>
            ret[t].out = OriginalResult(ret[t].args)

\* C4 witness: add(a,b) = a+b wrapped and called with (2,3) gave 5.
C4_Witness ==
    /\ orig = [kind |-> "free", arity |-> 2, body |-> "add"]
    /\ \E t \in Threads :
        ret[t].set /\ ret[t].args = <<2, 3>> /\ ret[t].out = Value(5)

\* C5 as stated: in any sequence of invocations, concurrent ones and one
\* started from inside the inner call of the same thread included, every
\* guard is constructed by a thread holding the lock and destroyed by a
\* thread not holding it.
C5_GuardPreconditionAlways ==
    \A t \in Threads :
        /\ At(t, "guard") => holds[t]
        /\ At(t, "unwind") => ~holds[t]

\* C5 amended: as long as every invocation was started by a thread holding
\* the lock (one after the other on a thread, or concurrently on several),
\* every guard is constructed with the lock held and destroyed with it not
\* held.
C5_GuardPreconditionWhenLocked ==
    ~unlocked => C5_GuardPreconditionAlways

\* C5 witness: the object is invoked on two threads at once, both invocations
\* started with the lock held: one guard is about to be destroyed, the other
\* about to be constructed.
C5_Witness ==
    /\ ~unlocked
    /\ \E t, u \in Threads : t # u /\ At(t, "unwind") /\ At(u, "guard")

\* C6: every guard instance restores once, after its own release, with the
\* token that release returned, and no token is held by two instances at the
\* same time, guards being neither copied nor shared.
LiveGuards ==
    {<<t, i>> \in Threads \X (1..MaxGuards) : i <= Len(scope[t])}
C6_TokenOwnedOnce ==
    /\ \A x \in LiveGuards : scope[x[1]][x[2]].released
    /\ \A x, y \in LiveGuards :
        x # y => scope[x[1]][x[2]]._state # scope[y[1]][y[2]]._state
    /\ restores <= releases

\* C7: wrapping R (C::*)(A1..An) exposes the signature R, C*, A1..An; called
\* with (instance, a1..an) it gives what the member function gives on that
\* instance, under one release and one restore.
C7_MemberFunction ==
    orig.kind = "member" =>
        /\ wrapped.mpl_signature_type =
             <<[name |-> "R", ptr |-> 0], [name |-> "C", ptr |-> 1]>>
                \o Params(orig.arity)
        /\ wrapped.functor.signature.params =
             <<[name |-> "C", ptr |-> 1]>> \o Params(orig.arity)
        /\ \A t \in Threads : ret[t].set =>
            /\ ret[t].out = DirectCall(orig, Head(ret[t].args), Tail(ret[t].args))
            /\ ret[t].nrel = 1 /\ ret[t].nres = 1

\* C7 witness: a three-argument member function was called through the
\* wrapper on an instance and returned.
C7_Witness ==
    /\ orig = [kind |-> "member", arity |-> 3, body |-> "weighted"]
    /\ \E t \in Threads : ret[t].set /\ Len(ret[t].args) = 4

\* C8: at most one thread holds the lock and no thread is inside a wrapped
\* body while holding it (that two threads are inside their wrapped bodies
\* at once is the witness).
C8_MutualExclusion ==
    /\ Cardinality(Holders) <= 1
    /\ \A t \in Threads : At(t, "call") => ~holds[t]

\* C8 witness: two threads are inside the bodies of their wrapped calls.
C8_Witness ==
    \E t, u \in Threads : t # u /\ At(t, "call") /\ At(u, "call")

\* C9: the guard's destructor has taken the lock only when no other thread
\* held it, and under fair scheduling every invocation returns to its caller
\* with the lock held.
C9_BlocksAndReturns ==
    /\ [](\A t \in Threads : At(t, "ret") =>
            \A u \in Threads \ {t} : ~holds[u])
    /\ \A t \in Threads :
        InFrame(t) ~> (~InFrame(t) /\ ret[t].set /\ ret[t].held)

\* C9 witness: a thread whose inner call has ended waits in the destructor
\* while another thread holds the lock.
C9_Witness ==
    \E t, u \in Threads : t # u /\ At(t, "unwind") /\ holds[u]

\* C10: invocations leave the wrapped object as constructed, no guard is
\* left once no invocation is in progress, and what an invocation gives its
\* caller is what the original gives for that invocation's arguments.
C10_Stateless ==
    /\ [][wrapped' = wrapped]_vars
    /\ [](wrapped = with_aux(orig))
    /\ []((\A t \in Threads : ~InFrame(t)) => releases = restores)
    /\ [](\A t \in Threads : ret[t].set => ret[t].out = OriginalResult(ret[t].args))

\* C10 witness: several invocations have completed, one of them on each of
\* two threads, and none is in progress.
C10_Witness ==
    /\ completed >= 2
    /\ \A t \in Threads : ~InFrame(t)
    /\ \E t, u \in Threads : t # u /\ ret[t].set /\ ret[u].set

====
